---- MODULE Spec2Model ----
(***************************************************************************)
(* Authentication and session subsystem of express-boilerplate-ts:         *)
(* accounts (User collection), the refresh-token ledger (Token             *)
(* collection), the JWT codec, and the register / login / refresh /        *)
(* logout / Google sign-in / delete-user handlers.                         *)
(*                                                                         *)
(* Every handler is an async function; each `await` on a store operation   *)
(* is a point where other requests may run.  A request therefore occupies  *)
(* a slot with a program counter, and one step of a handler is the store   *)
(* operation it awaits together with the synchronous code that follows it. *)
(* The clock counts seconds (the resolution of the iat / exp claims); the  *)
(* lifetimes are scaled down to a few ticks.                               *)
(***************************************************************************)
EXTENDS Integers, Sequences, FiniteSets, TLC

\* ---------------------------------------------------------------- bounds
MaxTime == 2
MaxUsers == 2
\* handlers in flight at one time
MaxReq == 2
\* refresh tokens in existence (handed out or in the ledger)
MaxTokens == 2

\* ------------------------------------------------- constants of the code
OK == 200
CREATED == 201
UNAUTHORIZED == 401
FORBIDDEN == 403
NOT_FOUND == 404
CONFLICT == 409
INTERNAL_SERVER_ERROR == 500

\* `expiresAt.setDate(expiresAt.getDate() + 7)`: the ledger lifetime, in ticks
LedgerDays == 1
\* JWT_REFRESH_EXPIRATION: default '7d' (the ledger lifetime) or a longer one
RefreshExpirations == {LedgerDays, LedgerDays + 2}
\* JWT_ACCESS_EXPIRATION, in ticks
AccessExpiration == 1

\* (mutant) one signing key for both token classes
sharedSecret == "refresh-secret"
accessSecret == "access-secret"
refreshSecret == "refresh-secret"
\* a key the server does not hold (forged or tampered token)
foreignSecret == "foreign-secret"

Slots == 1 .. MaxReq
UserIds == 1 .. MaxUsers

\* ------------------------------------------------------ request inputs
EmailInputs == { <<"A", "@", "x">>, <<"b", "@", "x">> }
\* login may also name an address nobody registers
LoginEmails == EmailInputs \cup { <<"c", "@", "x">> }
PasswordInputs == { "pw1", "pw2" }
RegisterPasswords == { "pw1" }
GoogleIds == { "g1", "g2" }
NoGoogleId == "none"
NoPicture == "none"
NoPassword == << >>
\* display names: the provider may send one of a single character
GoogleNames == { << "A", "n" >>, << "A" >> }
RegisterNames == { << "B", "o" >> }
NoName == << >>
NoUserId == 0

VARIABLES
    users,              \* User collection: id -> document
    nextId,             \* next fresh ObjectId
    ledger,             \* Token collection: set of {token, userId, expiresAt}
    clock,              \* Date.now(), in seconds
    refreshExpiration,  \* jwtConfig.refreshExpiration
    req,                \* request slots: the handlers in flight
    held,               \* refresh tokens that responses handed to clients
    revoked             \* refresh tokens whose logout was answered with 200

vars == << users, nextId, ledger, clock, refreshExpiration, req, held, revoked >>

\* ------------------------------------------------------------- strings
LowerChar(c) ==
    IF c = "A" THEN "a" ELSE IF c = "B" THEN "b" ELSE c

\* (mutant) a string left as it was typed
keepCase(s) == s

toLowerCase(s) == [ i \in DOMAIN s |-> LowerChar(s[i]) ]

\* bcrypt.hash / bcrypt.compare (the salt plays no role in the comparison)
bcryptHash(p) == << "bcrypt", p >>
bcryptCompare(candidate, digest) == digest = bcryptHash(candidate)


\* ------------------------------------------------------------ JWT codec
\* A signed token is determined by its claims and the key that signed it:
\* jwt.sign is HS256 over {userId, email, role, iat, exp, iss, aud}.
NoToken ==
    [ secret |-> "none", userId |-> NoUserId, email |-> << >>, role |-> "none",
      iat |-> 0, exp |-> 0 ]

jwtSign(userId, email, role, secret, expiresIn) ==
    [ secret |-> secret, userId |-> userId, email |-> email, role |-> role,
      iat |-> clock, exp |-> clock + expiresIn ]

\* (mutant) a verification that never looks at the exp claim
jwtVerifyIgnoringExp(token, secret) ==
    IF token.secret # secret THEN "JsonWebTokenError" ELSE "ok"

\* jwt.verify: signature first, then the exp claim (expired once now >= exp)
jwtVerify(token, secret) ==
    IF token.secret # secret THEN "JsonWebTokenError"
    ELSE IF clock >= token.exp THEN "TokenExpiredError"
    ELSE "ok"

generateAccessToken(userId, email, role) ==
    jwtSign(userId, email, role, accessSecret, AccessExpiration)

generateRefreshToken(userId, email, role) ==
    jwtSign(userId, email, role, refreshSecret, refreshExpiration)

generateTokenPair(userId, email, role) ==
    [ accessToken |-> generateAccessToken(userId, email, role),
      refreshToken |-> generateRefreshToken(userId, email, role) ]

NoPair == [ accessToken |-> NoToken, refreshToken |-> NoToken ]

\* errors: an ApiError carries its status; a MongoServerError 11000 carries
\* the field of the violated unique index; anything else is a plain Error
NoError == [ kind |-> "none", statusCode |-> 0, message |-> "", field |-> "" ]
ApiError(statusCode, message) ==
    [ kind |-> "ApiError", statusCode |-> statusCode, message |-> message, field |-> "" ]
DuplicateKey(field) ==
    [ kind |-> "MongoServerError", statusCode |-> 0, message |-> "E11000 duplicate key",
      field |-> field ]
PlainError(message) ==
    [ kind |-> "Error", statusCode |-> 0, message |-> message, field |-> "" ]

\* verifyAccessToken: the payload, or the ApiError it throws
verifyAccessToken(token) ==
    LET v == jwtVerify(token, accessSecret) IN
    IF v = "ok" THEN NoError
    ELSE IF v = "TokenExpiredError" THEN ApiError(UNAUTHORIZED, "Access token expired")
    ELSE ApiError(UNAUTHORIZED, "Invalid access token")

\* (mutant) a verification that reports every failure as an invalid token
verifyRefreshTokenOneVariant(token) ==
    IF jwtVerify(token, refreshSecret) = "ok" THEN NoError
    ELSE ApiError(UNAUTHORIZED, "Invalid refresh token")

\* verifyRefreshToken: the payload, or the ApiError it throws
verifyRefreshToken(token) ==
    LET v == jwtVerify(token, refreshSecret) IN
    IF v = "ok" THEN NoError
    ELSE IF v = "TokenExpiredError" THEN ApiError(UNAUTHORIZED, "Refresh token expired")
    ELSE ApiError(UNAUTHORIZED, "Invalid refresh token")

\* ------------------------------------------------------- error handler
\* `${field.charAt(0).toUpperCase() + field.slice(1)} already exists`
AlreadyExists(field) ==
    IF field = "token" THEN "Token already exists"
    ELSE IF field = "email" THEN "Email already exists"
    ELSE IF field = "googleId" THEN "GoogleId already exists"
    ELSE "already exists"

\* a response: its status, the message and tokens of its body, and the shape
\* of the body ("error" is {error: {statusCode, message}}, "body" is the
\* JSON a controller writes itself)
NoResp ==
    [ status |-> 0, message |-> "", accessToken |-> NoToken, refreshToken |-> NoToken,
      shape |-> "none" ]

\* response.status(status).json(...) in a controller
Reply(status, message, pair) ==
    [ status |-> status, message |-> message,
      accessToken |-> pair.accessToken, refreshToken |-> pair.refreshToken,
      shape |-> "body" ]

\* errorHandler: the response for an error passed to next()
errorHandler(err) ==
    LET envelope(statusCode, message) ==
            [ Reply(statusCode, message, NoPair) EXCEPT !.shape = "error" ]
    IN
    IF err.kind = "ApiError" THEN envelope(err.statusCode, err.message)
    ELSE IF err.kind = "MongoServerError"
        THEN envelope(CONFLICT, AlreadyExists(err.field))
    ELSE IF err.message # "" THEN envelope(INTERNAL_SERVER_ERROR, err.message)
    ELSE envelope(INTERNAL_SERVER_ERROR, "Internal server error")

\* ---------------------------------------------------- Token collection
TokenDocs(L, token) == { d \in L : d.token = token }

\* Token.create: the unique index on `token` rejects a second document
TokenCreateFails(L, token) == TokenDocs(L, token) # {}
\* (mutant) a create whose document is not stored
TokenCreateDropped(L, token, userId, expiresAt) == L

TokenCreate(L, token, userId, expiresAt) ==
    L \cup { [ token |-> token, userId |-> userId, expiresAt |-> expiresAt ] }

\* (mutant) a deleteOne that matches nothing
TokenDeleteOneKept(L, token) == L

\* Token.deleteOne({token})
TokenDeleteOne(L, token) == L \ TokenDocs(L, token)
\* Token.deleteMany({userId})
TokenDeleteMany(L, userId) == { d \in L : d.userId # userId }

\* ----------------------------------------------------- User collection
IdsByEmail(us, email) == { i \in DOMAIN us : us[i].email = email }
IdsByGoogleId(us, googleId) == { i \in DOMAIN us : us[i].googleId = googleId }

\* User.findOne({...}): the id of the matching document, or NoUserId
FindOne(ids) == IF ids = {} THEN NoUserId ELSE CHOOSE i \in ids : TRUE

getUserByGoogleId(us, googleId) == FindOne(IdsByGoogleId(us, googleId))
getUserByEmailInternal(us, email) == FindOne(IdsByEmail(us, toLowerCase(email)))

\* the unique indexes of userSchema: email, and googleId where present
\* (mutant) a collection without the unique index on email
EmailTakenNever(us, email, self) == FALSE

EmailTaken(us, email, self) ==
    \E i \in DOMAIN us : i # self /\ us[i].email = email
GoogleIdTaken(us, googleId, self) ==
    googleId # NoGoogleId /\ \E i \in DOMAIN us : i # self /\ us[i].googleId = googleId

\* userSchema.name: minlength 2, maxlength 100, checked by save()
ValidName(name) == Len(name) >= 2 /\ Len(name) <= 100

\* (mutant) a comparison that accepts every candidate
comparePasswordAlways(user, candidate) == TRUE

\* comparePassword
comparePassword(user, candidate) ==
    IF user.password = NoPassword THEN FALSE
    ELSE bcryptCompare(candidate, user.password)


\* ------------------------------------------------------------ requests
NoGoogleData ==
    [ googleId |-> NoGoogleId, email |-> << >>, name |-> NoName,
      profilePicture |-> NoPicture, verified |-> FALSE, via |-> "none",
      ticket |-> "none" ]

\* a request slot: the handler, its position, its arguments and its locals
Idle ==
    [ op |-> "idle", pc |-> "done",
      tok |-> NoToken, email |-> << >>, name |-> NoName, password |-> "", role |-> "unset",
      newPassword |-> "",
      googleId |-> NoGoogleId, g |-> NoGoogleData, id |-> NoUserId,
      uid |-> NoUserId, pair |-> NoPair, expiresAt |-> 0,
      didDelete |-> FALSE, didCreate |-> FALSE, path |-> "none",
      resp |-> NoResp ]

Store == [ users |-> users, nextId |-> nextId, ledger |-> ledger ]

Goto(S, r, pc) == [ S |-> S, r |-> [ r EXCEPT !.pc = pc ] ]
\* the request body is not read again once the account is resolved
Body(r) ==
    [ r EXCEPT !.email = << >>, !.name = NoName, !.password = "", !.role = "unset",
               !.googleId = NoGoogleId, !.newPassword = "" ]
\* the handler returns or throws: its locals are gone, the response is sent
Finish(S, r, resp) ==
    [ S |-> S,
      r |-> [ Body(r) EXCEPT !.pc = "done", !.resp = resp, !.g = NoGoogleData,
                             !.pair = NoPair, !.expiresAt = 0 ] ]

\* -------------------------------------------- authenticateUser / login
\* (mutant) a login failure that tells the caller the account is unknown
NoUserErrorRevealing == ApiError(NOT_FOUND, "User not found")

\* the error thrown when no account has the email
NoUserError == ApiError(UNAUTHORIZED, "Invalid email or password")
\* the error thrown when comparePassword is false
BadPasswordError == ApiError(UNAUTHORIZED, "Invalid email or password")

LoginStep(S, r) ==
    IF r.pc = "start" THEN
        LET id == FindOne(IdsByEmail(S.users, toLowerCase(r.email))) IN
        IF id = NoUserId
        THEN Finish(S, [ r EXCEPT !.path = "noUser" ], errorHandler(NoUserError))
        ELSE IF ~comparePassword(S.users[id], r.password)
        THEN Finish(S, [ r EXCEPT !.path =
                            IF S.users[id].password = NoPassword
                            THEN "noPassword" ELSE "mismatch" ],
                    errorHandler(BadPasswordError))
        ELSE Goto(S, [ Body(r) EXCEPT
                        !.uid = id,
                        !.pair = generateTokenPair(id, S.users[id].email, S.users[id].role),
                        !.expiresAt = clock + LedgerDays ],
                  "createToken")
    ELSE \* r.pc = "createToken"
        IF TokenCreateFails(S.ledger, r.pair.refreshToken)
        THEN Finish(S, [ r EXCEPT !.path = "collision" ], errorHandler(DuplicateKey("token")))
        ELSE Finish([ S EXCEPT !.ledger =
                        TokenCreate(S.ledger, r.pair.refreshToken, r.uid, r.expiresAt) ],
                    [ r EXCEPT !.path = "ok" ],
                    Reply(OK, "", r.pair))

\* -------------------------------------------- registerUser / createUser
NewLocalUser(body) ==
    [ name |-> body.name,
      email |-> toLowerCase(body.email),
      password |-> bcryptHash(body.password),
      role |-> IF body.role = "unset" THEN "user" ELSE body.role,
      googleId |-> NoGoogleId,
      profilePicture |-> NoPicture,
      authProvider |-> "local" ]

Insert(us, id, doc) == [ i \in DOMAIN us \cup { id } |-> IF i = id THEN doc ELSE us[i] ]

RegisterStep(S, r) ==
    IF r.pc = "start" THEN
        LET doc == NewLocalUser(r) IN
        IF EmailTaken(S.users, doc.email, NoUserId)
        THEN Finish(S, [ r EXCEPT !.path = "duplicate" ],
                    errorHandler(ApiError(CONFLICT, "Email already exists")))
        ELSE Goto([ S EXCEPT !.users = Insert(S.users, S.nextId, doc),
                             !.nextId = S.nextId + 1 ],
                  [ Body(r) EXCEPT
                        !.uid = S.nextId,
                        !.pair = generateTokenPair(S.nextId, doc.email, doc.role),
                        !.expiresAt = clock + LedgerDays ],
                  "createToken")
    ELSE \* r.pc = "createToken"
        IF TokenCreateFails(S.ledger, r.pair.refreshToken)
        THEN Finish(S, [ r EXCEPT !.path = "collision" ], errorHandler(DuplicateKey("token")))
        ELSE Finish([ S EXCEPT !.ledger =
                        TokenCreate(S.ledger, r.pair.refreshToken, r.uid, r.expiresAt) ],
                    [ r EXCEPT !.path = "ok" ],
                    Reply(CREATED, "", r.pair))


\* ------------------------------------------------- refreshAccessToken
\* (mutant) the rotation with the insert awaited before the delete
RotationInsertFirst == << "createNew", "deleteOld" >>

\* the two store operations of the rotation, in the order the code awaits them
RotationOrder == << "deleteOld", "createNew" >>

\* (mutant) a refresh that reads the role from the account
RefreshRoleStored(user, payload) == user.role

\* the role argument of generateTokenPair in refreshAccessToken: payload.role
RefreshRole(user, payload) == payload.role

AfterRotation(S, r, op) ==
    IF op = RotationOrder[1]
    THEN Goto(S, r, RotationOrder[2])
    ELSE Finish(S, [ r EXCEPT !.path = "ok" ],
                \* the controller answers { accessToken } only
                Reply(OK, "", [ accessToken |-> r.pair.accessToken,
                                refreshToken |-> NoToken ]))

RefreshStep(S, r) ==
    IF r.pc = "start" THEN
        LET err == verifyRefreshToken(r.tok) IN
        IF err # NoError
        THEN Finish(S, [ r EXCEPT !.path = "badToken" ], errorHandler(err))
        ELSE Goto(S, r, "findToken")
    ELSE IF r.pc = "findToken" THEN
        LET docs == TokenDocs(S.ledger, r.tok) IN
        IF docs = {}
        THEN Finish(S, [ r EXCEPT !.path = "notInLedger" ],
                    errorHandler(ApiError(UNAUTHORIZED, "Invalid or expired refresh token")))
        ELSE IF \E d \in docs : d.expiresAt < clock
        THEN Goto(S, r, "deleteExpired")
        ELSE Goto(S, r, "findUser")
    ELSE IF r.pc = "deleteExpired" THEN
        Finish([ S EXCEPT !.ledger = TokenDeleteOne(S.ledger, r.tok) ],
               [ r EXCEPT !.path = "ledgerExpired" ],
               errorHandler(ApiError(UNAUTHORIZED, "Refresh token expired")))
    ELSE IF r.pc = "findUser" THEN
        IF r.tok.userId \notin DOMAIN S.users
        THEN Goto(S, r, "deleteOrphan")
        ELSE Goto(S, [ r EXCEPT
                        !.uid = r.tok.userId,
                        !.pair = generateTokenPair(r.tok.userId,
                                    S.users[r.tok.userId].email,
                                    RefreshRole(S.users[r.tok.userId], r.tok)) ],
                  RotationOrder[1])
    ELSE IF r.pc = "deleteOrphan" THEN
        Finish([ S EXCEPT !.ledger = TokenDeleteOne(S.ledger, r.tok) ],
               [ r EXCEPT !.path = "noUser" ],
               errorHandler(ApiError(UNAUTHORIZED, "User not found")))
    ELSE IF r.pc = "deleteOld" THEN
        AfterRotation([ S EXCEPT !.ledger = TokenDeleteOne(S.ledger, r.tok) ],
                      [ r EXCEPT !.didDelete = TRUE, !.expiresAt = clock + LedgerDays ],
                      "deleteOld")
    ELSE \* r.pc = "createNew"
        IF TokenCreateFails(S.ledger, r.pair.refreshToken)
        THEN Finish(S, [ r EXCEPT !.path = "collision" ], errorHandler(DuplicateKey("token")))
        ELSE AfterRotation(
                [ S EXCEPT !.ledger =
                    TokenCreate(S.ledger, r.pair.refreshToken, r.uid, r.expiresAt) ],
                [ r EXCEPT !.didCreate = TRUE ],
                "createNew")

\* ------------------------------------------- revokeRefreshToken / logout
\* (mutant) a revoke that gives up when verifyRefreshToken throws
LogoutStepVerifying(S, r) ==
    IF verifyRefreshToken(r.tok) # NoError
    THEN Finish(S, [ r EXCEPT !.path = "badToken" ], errorHandler(verifyRefreshToken(r.tok)))
    ELSE IF TokenDocs(S.ledger, r.tok) = {}
    THEN Finish(S, [ r EXCEPT !.path = "notFound" ],
                errorHandler(ApiError(NOT_FOUND, "Refresh token not found")))
    ELSE Finish([ S EXCEPT !.ledger = TokenDeleteOne(S.ledger, r.tok) ],
                [ r EXCEPT !.path = "ok" ],
                Reply(OK, "Logged out successfully", NoPair))

LogoutStep(S, r) ==
    \* the result of verifyRefreshToken is logged and dropped
    IF TokenDocs(S.ledger, r.tok) = {}
    THEN Finish(S, [ r EXCEPT !.path = "notFound" ],
                errorHandler(ApiError(NOT_FOUND, "Refresh token not found")))
    ELSE Finish([ S EXCEPT !.ledger = TokenDeleteOne(S.ledger, r.tok) ],
                [ r EXCEPT !.path = "ok" ],
                Reply(OK, "Logged out successfully", NoPair))

\* ------------------------------------------------------------ deleteUser
Remove(us, id) == [ i \in DOMAIN us \ { id } |-> us[i] ]

DeleteUserStep(S, r) ==
    IF r.pc = "start" THEN
        IF r.id \notin DOMAIN S.users
        THEN Finish(S, [ r EXCEPT !.path = "notFound" ],
                    errorHandler(ApiError(NOT_FOUND, "User not found")))
        ELSE Goto([ S EXCEPT !.users = Remove(S.users, r.id) ], r, "deleteTokens")
    ELSE \* r.pc = "deleteTokens"
        Finish([ S EXCEPT !.ledger = TokenDeleteMany(S.ledger, r.id) ],
               [ r EXCEPT !.path = "ok" ],
               Reply(OK, "User deleted successfully", NoPair))

\* ------------------------------------------------------------ updateUser
NoEmail == << >>

\* (mutant) an update that stores the email as sent, without the lowercase setter
SetFieldsKeepCase(doc, body) ==
    [ doc EXCEPT
        !.email = IF body.email = << >> THEN @ ELSE body.email,
        !.name = IF body.name = NoName THEN @ ELSE body.name,
        !.googleId = IF body.googleId = NoGoogleId THEN @ ELSE body.googleId ]

\* findByIdAndUpdate(id, { $set: updateData }): every schema path present in
\* the body is written; the lowercase setter of email runs on the update
SetFields(doc, body) ==
    [ doc EXCEPT
        !.email = IF body.email = NoEmail THEN @ ELSE toLowerCase(body.email),
        !.name = IF body.name = NoName THEN @ ELSE body.name,
        !.role = IF body.role = "unset" THEN @ ELSE body.role,
        !.googleId = IF body.googleId = NoGoogleId THEN @ ELSE body.googleId,
        !.password = IF body.password = "" THEN @ ELSE << "plain", body.password >> ]

UpdateUserStep(S, r) ==
    IF r.pc = "start" /\ r.email # NoEmail THEN
        \* the email is looked up first; a match on another account is a conflict
        IF EmailTaken(S.users, toLowerCase(r.email), r.id)
        THEN Finish(S, [ r EXCEPT !.path = "emailTaken" ],
                    errorHandler(ApiError(CONFLICT, "Email already taken")))
        ELSE Goto(S, r, "update")
    ELSE \* findByIdAndUpdate
        IF r.id \notin DOMAIN S.users
        THEN Finish(S, [ r EXCEPT !.path = "notFound" ],
                    errorHandler(ApiError(NOT_FOUND, "User not found")))
        ELSE LET doc == SetFields(S.users[r.id], r) IN
             IF EmailTaken(S.users, doc.email, r.id)
             THEN Finish(S, [ r EXCEPT !.path = "duplicateEmail" ],
                         errorHandler(DuplicateKey("email")))
             ELSE IF GoogleIdTaken(S.users, doc.googleId, r.id)
             THEN Finish(S, [ r EXCEPT !.path = "duplicateGoogleId" ],
                         errorHandler(DuplicateKey("googleId")))
             ELSE Finish([ S EXCEPT !.users[r.id] = doc ],
                         [ r EXCEPT !.path = "ok" ],
                         Reply(OK, "", NoPair))


\* ---------------------------------------- Google sign-in (web and mobile)
\* (mutant) a sign-in that skips the verified check
EmailVerifiedSkipped(g) == TRUE

\* `!email || !email.verified` (web), `!payload || !payload.email_verified` (mobile)
EmailVerified(g) == g.verified

NewGoogleUser(g) ==
    [ name |-> g.name,
      email |-> toLowerCase(g.email),
      password |-> NoPassword,
      role |-> "user",
      googleId |-> g.googleId,
      profilePicture |-> g.profilePicture,
      authProvider |-> "google" ]

\* (mutant) a link that forgets the googleId
linkWithoutGoogleId(doc, googleId, profilePicture) ==
    [ doc EXCEPT !.profilePicture = profilePicture ]

\* (mutant) a link that rewrites the account as a Google account
linkAsGoogleAccount(doc, googleId, profilePicture) ==
    [ doc EXCEPT !.googleId = googleId, !.profilePicture = profilePicture,
                 !.authProvider = "google", !.password = NoPassword ]

\* linkGoogleAccount: findByIdAndUpdate(userId, {googleId, profilePicture});
\* an undefined profilePicture is dropped from the update
linkGoogleAccount(doc, googleId, profilePicture) ==
    [ doc EXCEPT
        !.googleId = googleId,
        !.profilePicture = IF profilePicture = NoPicture THEN @ ELSE profilePicture ]

\* (mutant) a sign-in that goes on with the claims of an unverified ID token
TicketVerifiedSkipped(g) == TRUE

\* await client.verifyIdToken(...) returned a ticket (it throws otherwise)
TicketVerified(g) == g.ticket = "ok"

\* authenticateGoogleUser wraps every error in a 500 ApiError
GoogleServiceError == ApiError(INTERNAL_SERVER_ERROR, "Failed to authenticate with Google")

\* what the caller of authenticateGoogleUser does with that error
GoogleFailure(S, r, path) ==
    Finish(S, [ r EXCEPT !.path = path ],
           IF r.g.via = "web"
           THEN errorHandler(GoogleServiceError)
           ELSE Reply(UNAUTHORIZED, "Invalid Google ID token", NoPair))

\* generateTokenPair for the reconciled account; expiresAt is the exp claim
GoogleIssue(S, r, id, path) ==
    LET pair == generateTokenPair(id, S.users[id].email, S.users[id].role) IN
    Goto(S, [ r EXCEPT !.uid = id, !.path = path, !.pair = pair,
                       !.expiresAt = pair.refreshToken.exp ],
         "saveToken")

GoogleStep(S, r) ==
    IF r.pc = "start" THEN
        IF ~TicketVerified(r.g)
        THEN Finish(S, [ r EXCEPT !.path = "verifyFailed" ],
                    Reply(UNAUTHORIZED, "Invalid Google ID token", NoPair))
        ELSE IF ~EmailVerified(r.g)
        THEN Finish(S, [ r EXCEPT !.path = "unverified" ],
                    IF r.g.via = "web"
                    THEN errorHandler(PlainError("Email not verified by Google"))
                    ELSE Reply(UNAUTHORIZED, "Email not verified by Google", NoPair))
        ELSE Goto(S, r, "byGoogleId")
    ELSE IF r.pc = "byGoogleId" THEN
        LET id == getUserByGoogleId(S.users, r.g.googleId) IN
        IF id # NoUserId
        THEN GoogleIssue(S, r, id, "found")
        ELSE Goto(S, r, "byEmail")
    ELSE IF r.pc = "byEmail" THEN
        LET id == getUserByEmailInternal(S.users, r.g.email) IN
        IF id # NoUserId
        THEN Goto(S, [ r EXCEPT !.uid = id ], "link")
        ELSE Goto(S, r, "createUser")
    ELSE IF r.pc = "link" THEN
        IF r.uid \notin DOMAIN S.users
        THEN GoogleFailure(S, r, "linkNotFound")
        ELSE IF GoogleIdTaken(S.users, r.g.googleId, r.uid)
        THEN GoogleFailure(S, r, "linkDuplicate")
        ELSE GoogleIssue(
                [ S EXCEPT !.users[r.uid] =
                    linkGoogleAccount(@, r.g.googleId, r.g.profilePicture) ],
                r, r.uid, "linked")
    ELSE IF r.pc = "createUser" THEN
        LET doc == NewGoogleUser(r.g) IN
        IF ~ValidName(doc.name)
        THEN GoogleFailure(S, r, "createInvalid")
        ELSE IF EmailTaken(S.users, doc.email, NoUserId)
           \/ GoogleIdTaken(S.users, doc.googleId, NoUserId)
        THEN GoogleFailure(S, r, "createDuplicate")
        ELSE GoogleIssue(
                [ S EXCEPT !.users = Insert(S.users, S.nextId, doc),
                           !.nextId = S.nextId + 1 ],
                r, S.nextId, "created")
    ELSE \* r.pc = "saveToken"
        IF TokenCreateFails(S.ledger, r.pair.refreshToken)
        THEN Finish(S, [ r EXCEPT !.path = "collision" ],
                    IF r.g.via = "web"
                    THEN errorHandler(DuplicateKey("token"))
                    ELSE Reply(UNAUTHORIZED, "Invalid Google ID token", NoPair))
        ELSE Finish([ S EXCEPT !.ledger =
                        TokenCreate(S.ledger, r.pair.refreshToken, r.uid, r.expiresAt) ],
                    r,
                    Reply(OK, "Google authentication successful", r.pair))

\* ------------------------------------------------- roles and permissions
\* RolePermissions[role] || []: RolePermissions is an object literal, so the
\* lookup also finds what every object inherits from Object.prototype
\* (constructor, toString, ...); such a value is truthy and is returned as it
\* is, and it is no array of permissions
getPermissionsForRole(role) ==
    IF role = "admin"
    THEN << "manageUsers", "getUsers", "getProfile", "updateOwnProfile" >>
    ELSE IF role \in { "user", "therapist" } THEN << "getProfile", "updateOwnProfile" >>
    ELSE IF role \in { "constructor", "toString", "valueOf", "hasOwnProperty", "__proto__" }
    THEN << "inherited", role >>
    ELSE << >>

\* ---------------------------------------------------------- authenticate
\* req.user before the authenticator has attached anything
NoIdentity ==
    [ id |-> NoUserId, email |-> << >>, name |-> NoName, role |-> "", permissions |-> << >> ]

\* (mutant) a verify callback that accepts any payload
PayloadCompleteSkipped(payload) == TRUE

\* !payload.userId || !payload.email || !payload.role
PayloadComplete(payload) ==
    ~(payload.userId = NoUserId \/ payload.email = << >> \/ payload.role = "")

\* (mutant) an authenticator that loads the account of the token's userId and
\* attaches what the store says
authenticateFromStore(header) ==
    IF header = NoToken \/ jwtVerify(header, accessSecret) # "ok"
       \/ header.userId \notin DOMAIN users
    THEN [ user |-> NoIdentity, err |-> ApiError(UNAUTHORIZED, "Unauthorized") ]
    ELSE LET doc == users[header.userId] IN
         [ user |-> [ id |-> header.userId, email |-> doc.email, name |-> NoName,
                      role |-> doc.role,
                      permissions |-> getPermissionsForRole(doc.role) ],
           err |-> NoError ]

\* the JWT strategy under the custom callback of authenticate: the bearer
\* token of the Authorization header (NoToken without one) is verified with
\* the access secret, then its payload is checked; every failure reaches the
\* callback as (null, false, info)
authenticate(header) ==
    LET v == jwtVerify(header, accessSecret)
        fail(message) == [ user |-> NoIdentity, err |-> ApiError(UNAUTHORIZED, message) ]
    IN
    IF header = NoToken THEN fail("No auth token")
    ELSE IF v = "TokenExpiredError" THEN fail("jwt expired")
    ELSE IF v # "ok" THEN fail("invalid token")
    ELSE IF ~PayloadComplete(header) THEN fail("Unauthorized")
    ELSE [ user |-> [ id |-> header.userId, email |-> header.email, name |-> NoName,
                      role |-> header.role,
                      permissions |-> getPermissionsForRole(header.role) ],
           err |-> NoError ]

\* ------------------------------------------------ permission middleware
includes(array, x) == \E k \in DOMAIN array : array[k] = x

AuthenticationRequired == ApiError(UNAUTHORIZED, "Authentication required")

requirePermission(permission, user) ==
    IF user = NoIdentity THEN AuthenticationRequired
    ELSE IF ~includes(user.permissions, permission)
    THEN ApiError(FORBIDDEN, "Permission denied. Required permission")
    ELSE NoError

requireRole(role, user) ==
    IF user = NoIdentity THEN AuthenticationRequired
    ELSE IF user.role # role THEN ApiError(FORBIDDEN, "Access denied. Required role")
    ELSE NoError

\* permissions.some(p => req.user.permissions.includes(p))
requireAnyPermission(permissions, user) ==
    IF user = NoIdentity THEN AuthenticationRequired
    ELSE IF ~(\E k \in DOMAIN permissions : includes(user.permissions, permissions[k]))
    THEN ApiError(FORBIDDEN, "Permission denied. Required one of")
    ELSE NoError

\* (mutant) a check of all the listed permissions that one of them satisfies
requireAllSatisfiedByOne(permissions, user) == requireAnyPermission(permissions, user)

\* permissions.every(p => req.user.permissions.includes(p))
requireAllPermissions(permissions, user) ==
    IF user = NoIdentity THEN AuthenticationRequired
    ELSE IF ~(\A k \in DOMAIN permissions : includes(user.permissions, permissions[k]))
    THEN ApiError(FORBIDDEN, "Permission denied. Required all of")
    ELSE NoError

\* (mutant) /users/:id handlers without the check on the caller
OwnerOrOverrideSkipped(denied, user, id, override, message) == denied

\* the check at the top of the /users/:id handlers, reached when the
\* middleware before it (whose result is denied) has called next()
OwnerOrOverride(denied, user, id, override, message) ==
    IF denied # NoError THEN denied
    ELSE IF user.id # id /\ ~includes(user.permissions, override)
    THEN ApiError(FORBIDDEN, message)
    ELSE NoError

\* the protected routes: everything under /users and /auth/change-password
Routes == { "getUsers", "getUserById", "updateUser", "deleteUser", "changePassword" }

\* what stands between the authenticator and the handler of a route
RouteGate(op, user, id) ==
    IF op = "getUsers" THEN requirePermission("getUsers", user)
    ELSE IF op = "getUserById" THEN
        OwnerOrOverride(requireAnyPermission(<< "getProfile", "getUsers" >>, user),
                        user, id, "getUsers", "You can only view your own profile")
    ELSE IF op = "updateUser" THEN
        OwnerOrOverride(requireAnyPermission(<< "updateOwnProfile", "manageUsers" >>, user),
                        user, id, "manageUsers", "You can only update your own profile")
    ELSE IF op = "deleteUser" THEN
        OwnerOrOverride(requireAnyPermission(<< "manageUsers", "updateOwnProfile" >>, user),
                        user, id, "manageUsers", "You can only delete your own account")
    ELSE NoError

\* ------------------------------------------------------------ getUserById
GetUserByIdStep(S, r) ==
    IF r.id \notin DOMAIN S.users
    THEN Finish(S, [ r EXCEPT !.path = "notFound" ],
                errorHandler(ApiError(NOT_FOUND, "User not found")))
    ELSE Finish(S, [ r EXCEPT !.path = "ok" ], Reply(OK, "", NoPair))

\* -------------------------------------------------------- changePassword
ChangePasswordStep(S, r) ==
    IF r.pc = "start" THEN
        IF r.uid \notin DOMAIN S.users
        THEN Finish(S, [ r EXCEPT !.path = "notFound" ],
                    errorHandler(ApiError(NOT_FOUND, "User not found")))
        ELSE IF ~comparePassword(S.users[r.uid], r.password)
        THEN Finish(S, [ r EXCEPT !.path = "wrongPassword" ],
                    errorHandler(ApiError(UNAUTHORIZED, "Incorrect old password")))
        ELSE Goto(S, [ r EXCEPT !.password = "" ], "save")
    ELSE \* r.pc = "save"
        IF r.uid \notin DOMAIN S.users
        THEN Finish(S, [ r EXCEPT !.path = "gone" ],
                    errorHandler(PlainError("DocumentNotFoundError")))
        ELSE Finish([ S EXCEPT !.users[r.uid].password = bcryptHash(r.newPassword) ],
                    [ r EXCEPT !.path = "ok" ],
                    Reply(OK, "Password changed successfully", NoPair))

\* ------------------------------------------------------ protected routes
Handler(S, r) ==
    IF r.op = "getUsers"
    THEN Finish(S, [ r EXCEPT !.path = "ok" ], Reply(OK, "", NoPair))
    ELSE IF r.op = "getUserById" THEN GetUserByIdStep(S, r)
    ELSE IF r.op = "updateUser" THEN UpdateUserStep(S, r)
    ELSE IF r.op = "changePassword" THEN ChangePasswordStep(S, r)
    ELSE DeleteUserStep(S, r)

\* a request to a protected route: authenticate, then the route's gate, then
\* the handler up to its first await; none of the middlewares awaits
Gate(S, r) ==
    LET a == authenticate(r.tok)
        denied == RouteGate(r.op, a.user, r.id)
    IN
    IF a.err # NoError
    THEN Finish(S, [ r EXCEPT !.path = "unauthenticated" ], errorHandler(a.err))
    ELSE IF denied # NoError
    THEN Finish(S, [ r EXCEPT !.path = "forbidden" ], errorHandler(denied))
    ELSE Handler(S, [ r EXCEPT !.pc = "start", !.tok = NoToken,
                               !.uid = IF r.op = "changePassword" THEN a.user.id
                                       ELSE NoUserId ])

\* ------------------------------------------------------ running handlers
Step(S, r) ==
    IF r.pc = "gate" THEN Gate(S, r)
    ELSE IF r.op = "login" THEN LoginStep(S, r)
    ELSE IF r.op = "register" THEN RegisterStep(S, r)
    ELSE IF r.op = "refresh" THEN RefreshStep(S, r)
    ELSE IF r.op = "logout" THEN LogoutStep(S, r)
    ELSE IF r.op = "google" THEN GoogleStep(S, r)
    ELSE Handler(S, r)

\* a handler run on its own, from r until it reaches one of the positions
RECURSIVE RunTo(_, _, _)
RunTo(S, r, stops) ==
    IF r.pc \in stops THEN [ S |-> S, r |-> r ]
    ELSE LET out == Step(S, r) IN RunTo(out.S, out.r, stops)

Run(S, r) == RunTo(S, r, { "done" })

NewRequest(op) == [ Idle EXCEPT !.op = op, !.pc = "start" ]
LoginRequest(email, password) ==
    [ NewRequest("login") EXCEPT !.email = email, !.password = password ]
RegisterRequest(email, name, password, role) ==
    [ NewRequest("register") EXCEPT !.email = email, !.name = name, !.password = password,
                                    !.role = role ]
RefreshRequest(token) == [ NewRequest("refresh") EXCEPT !.tok = token ]
LogoutRequest(token) == [ NewRequest("logout") EXCEPT !.tok = token ]
GoogleRequest(g) == [ NewRequest("google") EXCEPT !.g = g ]
DeleteUserRequest(id) == [ NewRequest("deleteUser") EXCEPT !.id = id ]
UpdateUserRequest(id, body) ==
    [ NewRequest("updateUser") EXCEPT !.id = id, !.email = body.email, !.name = body.name,
        !.role = body.role, !.googleId = body.googleId, !.password = body.password ]
\* a request to a protected route, before any middleware has run
ProtectedRequest(op, header, id, body) ==
    [ UpdateUserRequest(id, body) EXCEPT !.op = op, !.pc = "gate", !.tok = header,
                                         !.newPassword = body.newPassword ]


\* --------------------------------------------------------------- inputs
RoleInputs == { "unset", "admin" }
PictureInputs == { "pic" }
GoogleInputs ==
    [ googleId : GoogleIds, email : EmailInputs, name : GoogleNames,
      profilePicture : PictureInputs,
      verified : BOOLEAN, via : { "web", "mobile" }, ticket : { "ok" } ]

\* mobile sign-ins whose ID token verifyIdToken rejects, or whose call to
\* Google ends in a network timeout: verifyIdToken throws and there is no
\* payload
FailedVerifications ==
    { [ g EXCEPT !.ticket = o ] :
        g \in { h \in GoogleInputs : h.via = "mobile" }, o \in { "invalid", "timeout" } }

\* bodies of PUT /users/:id that pass updateUserSchema (name or email present;
\* validate() leaves the other keys of the body in place)
UpdateBodies ==
    { [ email |-> e, name |-> NoName, role |-> "unset", googleId |-> NoGoogleId,
        password |-> "" ] : e \in EmailInputs }
    \cup { [ email |-> NoEmail, name |-> << "C", "y" >>, role |-> "admin",
             googleId |-> "g1", password |-> "pw2" ] }

\* the bodies a protected route reads
NoBody ==
    [ email |-> NoEmail, name |-> NoName, role |-> "unset", googleId |-> NoGoogleId,
      password |-> "", newPassword |-> "" ]
ProtectedBodies(op) ==
    IF op = "updateUser"
    THEN { [ NoBody EXCEPT !.email = e ] : e \in EmailInputs }
    ELSE IF op = "changePassword"
    THEN { [ NoBody EXCEPT !.password = p, !.newPassword = "pw2" ] : p \in PasswordInputs }
    ELSE { NoBody }

\* what a client can send as a refresh token: a token some response handed
\* out, or such a token re-signed with a key the server does not hold
Forged(token) == [ token EXCEPT !.secret = foreignSecret ]
TokenInputs == held \cup { Forged(t) : t \in held }

\* what a client can send in the Authorization header: nothing, a string
\* that is no JWT, a refresh token, an access token the server signed for the
\* claims of a session it issued (at sign-in or at a later refresh), or a
\* token under the access secret whose payload misses a claim
IssuedAccess ==
    { [ t EXCEPT !.secret = accessSecret, !.iat = k, !.exp = k + AccessExpiration ] :
        t \in held, k \in 0 .. clock }
AccessHeaders ==
    { NoToken, [ NoToken EXCEPT !.secret = "malformed" ] } \cup held \cup IssuedAccess
    \cup { [ t EXCEPT !.userId = NoUserId ] : t \in IssuedAccess }
    \cup { [ t EXCEPT !.email = << >> ] : t \in IssuedAccess }
    \cup { [ t EXCEPT !.role = "" ] : t \in IssuedAccess }

\* ---------------------------------------------------------------- actions
Init ==
    /\ users = << >>
    /\ nextId = 1
    /\ ledger = {}
    /\ clock = 0
    /\ refreshExpiration \in RefreshExpirations
    /\ req = [ i \in Slots |-> Idle ]
    /\ held = {}
    /\ revoked = {}

Free(i) == req[i] = Idle
InFlight(i, op) == req[i].op = op

\* one step of the handler in slot i: the store operation it awaits and the
\* synchronous code up to the next await or the response
Tokens == held \cup { d.token : d \in ledger }

Apply(i, out) ==
    /\ out.S.nextId <= MaxUsers + 1
    /\ (out.r.pair # NoPair /\ req[i].pair = NoPair) => Cardinality(Tokens) < MaxTokens
    /\ users' = out.S.users
    /\ nextId' = out.S.nextId
    /\ ledger' = out.S.ledger
    /\ IF out.r.pc = "done"
       THEN /\ req' = [ req EXCEPT ![i] = Idle ]
            /\ held' = IF out.r.resp.refreshToken # NoToken
                       THEN held \cup { out.r.resp.refreshToken } ELSE held
            /\ revoked' = IF out.r.op = "logout" /\ out.r.resp.status = OK
                          THEN revoked \cup { out.r.tok } ELSE revoked
       ELSE /\ req' = [ req EXCEPT ![i] = out.r ]
            /\ UNCHANGED << held, revoked >>
    /\ UNCHANGED << clock, refreshExpiration >>

\* POST /register with the role key of the body drawn from roles
RegisterOf(i, roles) ==
    \/ /\ Free(i)
       /\ \E e \in EmailInputs, n \in RegisterNames, p \in RegisterPasswords, ro \in roles :
            Apply(i, RegisterStep(Store, RegisterRequest(e, n, p, ro)))
    \/ /\ InFlight(i, "register")
       /\ Apply(i, RegisterStep(Store, req[i]))

Register(i) == RegisterOf(i, RoleInputs)

Login(i) ==
    \/ /\ Free(i)
       /\ \E e \in LoginEmails, p \in PasswordInputs :
            Apply(i, LoginStep(Store, LoginRequest(e, p)))
    \/ /\ InFlight(i, "login")
       /\ Apply(i, LoginStep(Store, req[i]))

Refresh(i) ==
    \/ /\ Free(i)
       /\ \E t \in TokenInputs : Apply(i, RefreshStep(Store, RefreshRequest(t)))
    \/ /\ InFlight(i, "refresh")
       /\ Apply(i, RefreshStep(Store, req[i]))

Logout(i) ==
    /\ Free(i)
    /\ \E t \in TokenInputs : Apply(i, LogoutStep(Store, LogoutRequest(t)))

\* a Google sign-in with the identity drawn from inputs
GoogleOf(i, inputs) ==
    \/ /\ Free(i)
       /\ \E g \in inputs : Apply(i, GoogleStep(Store, GoogleRequest(g)))
    \/ /\ InFlight(i, "google")
       /\ Apply(i, GoogleStep(Store, req[i]))

Google(i) == GoogleOf(i, GoogleInputs \cup FailedVerifications)

DeleteUser(i) ==
    \/ /\ Free(i)
       /\ \E id \in UserIds : Apply(i, DeleteUserStep(Store, DeleteUserRequest(id)))
    \/ /\ InFlight(i, "deleteUser")
       /\ Apply(i, DeleteUserStep(Store, req[i]))

\* PUT /users/:id with the body drawn from bodies
UpdateUserOf(i, bodies) ==
    \/ /\ Free(i)
       /\ \E id \in UserIds, b \in bodies :
            Apply(i, UpdateUserStep(Store, UpdateUserRequest(id, b)))
    \/ /\ InFlight(i, "updateUser")
       /\ Apply(i, UpdateUserStep(Store, req[i]))

UpdateUser(i) == UpdateUserOf(i, UpdateBodies)

\* a request to one of the protected routes
Protected(i) ==
    \/ /\ Free(i)
       /\ \E op \in Routes, h \in AccessHeaders, id \in UserIds :
            \E b \in ProtectedBodies(op) :
                Apply(i, Step(Store, ProtectedRequest(op, h, id, b)))
    \/ /\ req[i].op \in Routes
       /\ Apply(i, Step(Store, req[i]))

\* (mutant) a Token collection without the TTL index
ReapNever == UNCHANGED vars

\* the TTL index on expiresAt (expireAfterSeconds: 0): a pass of the store's
\* TTL monitor deletes the records whose expiresAt lies in the past
Reap ==
    /\ \E d \in ledger : d.expiresAt < clock
    /\ ledger' = { d \in ledger : ~(d.expiresAt < clock) }
    /\ UNCHANGED << users, nextId, clock, refreshExpiration, req, held, revoked >>

Tick ==
    /\ clock < MaxTime
    /\ clock' = clock + 1
    /\ UNCHANGED << users, nextId, ledger, refreshExpiration, req, held, revoked >>

Next ==
    \/ \E i \in Slots : Register(i)
    \/ \E i \in Slots : Login(i)
    \/ \E i \in Slots : Refresh(i)
    \/ \E i \in Slots : Logout(i)
    \/ \E i \in Slots : Google(i)
    \/ \E i \in Slots : DeleteUser(i)
    \/ \E i \in Slots : UpdateUser(i)
    \/ \E i \in Slots : Protected(i)
    \/ Reap
    \/ Tick

Spec == Init /\ [][Next]_vars

\* requests served one at a time (slot 1): register, login, refresh,
\* logout, delete and the clock
NextSession ==
    \/ Register(1)
    \/ Login(1)
    \/ Refresh(1)
    \/ Logout(1)
    \/ DeleteUser(1)
    \/ Tick

SpecSession == Init /\ [][NextSession]_vars

\* the same requests with the store's TTL monitor; time advances and the
\* monitor keeps running
NextExpiry ==
    \/ Register(1)
    \/ Login(1)
    \/ Refresh(1)
    \/ Logout(1)
    \/ DeleteUser(1)
    \/ Reap
    \/ Tick

SpecExpiry == Init /\ [][NextExpiry]_vars /\ WF_vars(Tick) /\ WF_vars(Reap)

\* requests served one at a time (slot 1): register, login, Google sign-in,
\* delete and the clock
NextAccounts ==
    \/ Register(1)
    \/ Login(1)
    \/ Google(1)
    \/ DeleteUser(1)
    \/ Tick

SpecAccounts == Init /\ [][NextAccounts]_vars

\* concurrent account changes: register, Google sign-in, profile update and
\* delete interleaved
\* the requests of that specification: verified identities with a valid name,
\* registrations without a role key, updates of email or of name and googleId
IdentityGoogleInputs ==
    { g \in GoogleInputs : g.verified /\ ValidName(g.name) }
IdentityUpdateBodies ==
    { [ b EXCEPT !.role = "unset", !.password = "" ] : b \in UpdateBodies }

NextIdentity ==
    \/ \E i \in Slots : RegisterOf(i, { "unset" })
    \/ \E i \in Slots : GoogleOf(i, IdentityGoogleInputs)
    \/ \E i \in Slots : UpdateUserOf(i, IdentityUpdateBodies)
    \/ \E i \in Slots : DeleteUser(i)

\* with JWT_REFRESH_EXPIRATION left at its default
InitDefault == Init /\ refreshExpiration = LedgerDays

SpecIdentity == InitDefault /\ [][NextIdentity]_vars

\* protected routes, requests served one at a time (slot 1): register,
\* login, the protected routes and the clock
NextGuard ==
    \/ Register(1)
    \/ Login(1)
    \/ Protected(1)
    \/ Tick

SpecGuard == Init /\ [][NextGuard]_vars

\* sessions of accounts whose profile is updated, requests served one at a
\* time (slot 1): register, login, refresh, profile update and the clock
NextRoles ==
    \/ Register(1)
    \/ Login(1)
    \/ Refresh(1)
    \/ UpdateUser(1)
    \/ Tick

SpecRoles == Init /\ [][NextRoles]_vars

\* sessions racing an account deletion: register, login, refresh and delete
\* interleaved, and the clock
NextCascade ==
    \/ \E i \in Slots : RegisterOf(i, { "unset" })
    \/ \E i \in Slots : Login(i)
    \/ \E i \in Slots : Refresh(i)
    \/ \E i \in Slots : DeleteUser(i)
    \/ Tick

SpecCascade == Init /\ [][NextCascade]_vars

\* concurrent sessions: register, refresh and logout interleaved
NextRotation ==
    \/ \E i \in Slots : Register(i)
    \/ \E i \in Slots : Refresh(i)
    \/ \E i \in Slots : Logout(i)
    \/ Tick

SpecRotation == Init /\ [][NextRotation]_vars


\* =================================================================== claims

\* the response of refreshAccessToken(token) run on its own in this state
RefreshOf(token) == Run(Store, RefreshRequest(token))
\* the response of revokeRefreshToken(token) run in store S
LogoutIn(S, token) == Run(S, LogoutRequest(token)).r.resp

\* the three conditions of the refresh-token invariant, as the claim states them
SignatureVerifies(token) == token.secret = refreshSecret
PastExpiryClaim(token) == clock >= token.exp
LiveLedgerRecord(token) ==
    \E d \in ledger : d.token = token /\ ~(d.expiresAt < clock)
Usable(token) ==
    SignatureVerifies(token) /\ ~PastExpiryClaim(token) /\ LiveLedgerRecord(token)

\* C1: refreshAccessToken(T) returns an access token only if T's signature
\* verifies, T is not past its expiry claim and the ledger holds an unexpired
\* record for T; in every other case it answers 401 without an access token.
C1_RefreshOnlyIfUsable ==
    \A t \in TokenInputs :
        LET resp == RefreshOf(t).r.resp IN
        /\ (resp.status = OK \/ resp.accessToken # NoToken) => Usable(t)
        /\ ~Usable(t) => resp.status = UNAUTHORIZED /\ resp.accessToken = NoToken

\* a refresh has succeeded (the ledger holds a token no response handed out),
\* the token it consumed has a good signature and is refused, and another
\* held token is usable and accepted
C1_Witness ==
    /\ \E d \in ledger : d.token \notin held
    /\ \E t \in held :
        /\ SignatureVerifies(t) /\ ~PastExpiryClaim(t) /\ ~LiveLedgerRecord(t)
        /\ RefreshOf(t).r.resp.status = UNAUTHORIZED
    /\ \E t \in Tokens : Usable(t) /\ Run(Store, RefreshRequest(t)).r.resp.status = OK

\* C2: after refreshAccessToken(T) succeeds the ledger holds no record for T:
\* a following revoke of T reports 404 and a following refresh of T fails 401.
C2_OldTokenInvalid ==
    \A t \in TokenInputs :
        LET out == RefreshOf(t) IN
        out.r.resp.status = OK =>
            /\ TokenDocs(out.S.ledger, t) = {}
            /\ LogoutIn(out.S, t).status = NOT_FOUND
            /\ Run(out.S, RefreshRequest(t)).r.resp.status = UNAUTHORIZED

\* C3: a successful refresh hands the client a refresh token that is in the
\* ledger and with which it can log out.
C3_NewRefreshTokenReturned ==
    \A t \in TokenInputs :
        LET out == RefreshOf(t) IN
        out.r.resp.status = OK =>
            /\ out.r.resp.refreshToken # NoToken
            /\ TokenDocs(out.S.ledger, out.r.resp.refreshToken) # {}
            /\ LogoutIn(out.S, out.r.resp.refreshToken).status = OK

\* C4: once a logout of T was answered 200, every later refresh of T fails 401.
C4_RevokedStaysRevoked ==
    \A t \in revoked : RefreshOf(t).r.resp.status = UNAUTHORIZED

\* C6: a login with valid credentials succeeds with 200 and returns a refresh
\* token no earlier response returned; issuance never fails on a token collision.
C6_FreshPairOnLogin ==
    \A e \in LoginEmails, p \in PasswordInputs :
        LET out == Run(Store, LoginRequest(e, p)).r IN
        out.path \notin { "noUser", "noPassword", "mismatch" } =>
            /\ out.resp.status = OK
            /\ out.resp.refreshToken \notin held


\* C5: in refreshAccessToken the delete of the old ledger record comes before
\* the insert of the new one: whenever a step of a refresh handler inserts a
\* ledger record, that handler's deleteOne has already run.
C5_DeleteBeforeInsert ==
    [][ \A i \in Slots :
            ( /\ req[i].op = "refresh"
              /\ req'[i] # req[i]
              /\ ledger' \ ledger # {} )
            => req[i].didDelete ]_vars

\* a refresh in flight has deleted the old record and not yet inserted the new one
C5_Witness ==
    \E i \in Slots :
        /\ req[i].op = "refresh" /\ req[i].pc = "createNew" /\ req[i].didDelete
        /\ TokenDocs(ledger, req[i].tok) = {}
        /\ req[i].pair.refreshToken # req[i].tok

\* C7: authenticateUser fails with one and the same response when no account
\* has the email, when the account has no password digest and when the
\* password does not match.
LoginFailures == { "noUser", "noPassword", "mismatch" }

C7_UniformLoginFailure ==
    LET failed == { a \in { Run(Store, LoginRequest(e, p)).r :
                                e \in LoginEmails, p \in PasswordInputs } :
                    a.path \in LoginFailures }
    IN  \A a \in failed, b \in failed :
            /\ a.resp = b.resp
            /\ a.resp.status = UNAUTHORIZED

\* a state with a federated-only account and a local account, where a login
\* fails in each of the three ways
C7_Witness ==
    \A c \in LoginFailures :
        \E e \in LoginEmails, p \in PasswordInputs :
            LET a == Run(Store, LoginRequest(e, p)).r IN
            a.path = c /\ a.resp.status = UNAUTHORIZED

\* authenticateGoogleUser(g) run on its own in store S, up to its return
Verified(g) == [ g EXCEPT !.verified = TRUE ]
Reconcile(S, g) ==
    RunTo(S, [ GoogleRequest(Verified(g)) EXCEPT !.pc = "byGoogleId" ],
          { "saveToken", "done" })
Returned(out) == out.r.pc = "saveToken"

\* C8: authenticateGoogleUser called twice with the same verified identity
\* returns the same account id both times, and the second call takes the
\* lookup-by-googleId path and writes nothing.
C8_ReconcileIdempotent ==
    \A g \in GoogleInputs :
        LET first == Reconcile(Store, g) IN
        Returned(first) =>
            LET second == Reconcile(first.S, g) IN
            /\ Returned(second)
            /\ second.r.uid = first.r.uid
            /\ second.r.path = "found"
            /\ second.S = first.S

\* a returning Google user was signed in by googleId, and a first call for
\* another identity would still write
C8_Witness ==
    /\ \E i \in Slots :
        req[i].op = "google" /\ req[i].pc = "saveToken" /\ req[i].path = "found"
    /\ \E g \in GoogleInputs :
        Returned(Reconcile(Store, g)) /\ Reconcile(Store, g).S # Store

\* C9: when no account has the googleId and an account has the lower-cased
\* email, authenticateGoogleUser returns that account with googleId set and
\* role, email, password digest and authProvider unchanged; no account is created.
C9_LinkKeepsAccount ==
    \A g \in GoogleInputs, id \in DOMAIN users :
        ( /\ \A j \in DOMAIN users : users[j].googleId # g.googleId
          /\ users[id].email = toLowerCase(g.email) )
        => LET out == Reconcile(Store, g) IN
           /\ Returned(out)
           /\ out.r.uid = id
           /\ DOMAIN out.S.users = DOMAIN users
           /\ out.S.nextId = nextId
           /\ out.S.users[id].googleId = g.googleId
           /\ out.S.users[id].role = users[id].role
           /\ out.S.users[id].email = users[id].email
           /\ out.S.users[id].password = users[id].password
           /\ out.S.users[id].authProvider = users[id].authProvider
           /\ \A j \in DOMAIN users \ { id } : out.S.users[j] = users[j]

\* a Google sign-in was just linked to a local admin account that keeps its password
C9_Witness ==
    \E i \in Slots, id \in DOMAIN users :
        /\ req[i].op = "google" /\ req[i].pc = "saveToken" /\ req[i].path = "linked"
        /\ req[i].uid = id
        /\ users[id].googleId = req[i].g.googleId
        /\ users[id].authProvider = "local"
        /\ users[id].password # NoPassword
        /\ users[id].role = "admin"

\* C10: a Google sign-in whose email is not verified creates no account,
\* modifies no account and creates no ledger record, on the web and on the
\* mobile path; the verified check comes before any account lookup.
C10_UnverifiedTouchesNothing ==
    /\ \A g \in GoogleInputs :
        ~g.verified =>
            LET out == Run(Store, GoogleRequest(g)) IN
            /\ out.S = Store
            /\ out.r.path = "unverified"
            /\ out.r.resp.refreshToken = NoToken
    /\ \A i \in Slots : req[i].op = "google" => req[i].g.verified

\* an unverified sign-in is rejected in a state where the lookup by its
\* googleId would have found an account
C10_Witness ==
    \E g \in GoogleInputs, id \in DOMAIN users :
        /\ ~g.verified /\ users[id].googleId = g.googleId
        /\ Run(Store, GoogleRequest(g)).r.path = "unverified"
        /\ Run(Store, GoogleRequest(g)).r.resp.status \in { UNAUTHORIZED, INTERNAL_SERVER_ERROR }

\* C11: a Google sign-in whose email is not verified is answered 401 with the
\* "not verified" error, on the web callback and on the mobile endpoint.
C11_UnverifiedIs401 ==
    \A g \in GoogleInputs :
        ~g.verified =>
            LET resp == Run(Store, GoogleRequest(g)).r.resp IN
            /\ resp.status = UNAUTHORIZED
            /\ resp.message = "Email not verified by Google"

\* C12: when neither the googleId nor the email matches an account,
\* authenticateGoogleUser creates exactly one account, with the given
\* (lower-cased) email, name and picture, the googleId, authProvider google,
\* role user and no password digest.
C12_CreatesGoogleAccount ==
    \A g \in GoogleInputs :
        ( /\ getUserByGoogleId(users, g.googleId) = NoUserId
          /\ getUserByEmailInternal(users, g.email) = NoUserId )
        => LET out == Reconcile(Store, g) IN
           /\ Returned(out)
           /\ out.r.uid = nextId
           /\ DOMAIN out.S.users = DOMAIN users \cup { nextId }
           /\ \A j \in DOMAIN users : out.S.users[j] = users[j]
           /\ out.S.users[nextId] =
                [ name |-> g.name, email |-> toLowerCase(g.email),
                  password |-> NoPassword, role |-> "user",
                  googleId |-> g.googleId, profilePicture |-> g.profilePicture,
                  authProvider |-> "google" ]

\* C13: in every reachable state of interleaved register, Google sign-in,
\* profile update and delete requests, no two accounts have the same
\* lower-cased email and no two accounts have the same googleId.
C13_UniqueEmailAndGoogleId ==
    \A i \in DOMAIN users, j \in DOMAIN users :
        i # j =>
            /\ toLowerCase(users[i].email) # toLowerCase(users[j].email)
            /\ users[i].googleId # NoGoogleId => users[i].googleId # users[j].googleId

\* two accounts exist and an update in flight, past its own lookup, is about
\* to write an email that another account took in the meantime
C13_Witness ==
    /\ Cardinality(DOMAIN users) = 2
    /\ \E i \in Slots :
        /\ req[i].op = "updateUser" /\ req[i].pc = "update"
        /\ req[i].id \in DOMAIN users
        /\ EmailTaken(users, toLowerCase(req[i].email), req[i].id)

\* C14: when two reconciliations for the same unknown identity race, the call
\* that reaches createGoogleUser second (the account exists by then) is
\* answered 409 Conflict.
C14_RaceLoserConflict ==
    \A i \in Slots :
        ( /\ req[i].op = "google" /\ req[i].pc = "createUser"
          /\ \E id \in DOMAIN users :
                /\ users[id].googleId = req[i].g.googleId
                /\ users[id].email = toLowerCase(req[i].g.email) )
        => GoogleStep(Store, req[i]).r.resp.status = CONFLICT

\* C15: once deleteUser(id) has completed, the ledger holds no record owned by
\* account id, in that state and in every later one, whatever login or
\* refresh for that account was in flight during the deletion.
DeletionCompleted(id) ==
    /\ id \in 1 .. (nextId - 1)
    /\ id \notin DOMAIN users
    /\ \A i \in Slots : ~(req[i].op = "deleteUser" /\ req[i].id = id)

C15_DeleteCascades ==
    \A d \in ledger : ~DeletionCompleted(d.userId)

\* C16: revokeRefreshToken(T) deletes T's ledger record whenever there is one,
\* also when T fails verification or is past its expiry claim; it answers 404
\* exactly when there was no record, so a second revoke of T answers 404.
C16_RevokeDeletesOrNotFound ==
    \A t \in TokenInputs :
        LET out == Run(Store, LogoutRequest(t)) IN
        /\ out.S.users = users
        /\ out.S.ledger = { d \in ledger : d.token # t }
        /\ (out.r.resp.status = NOT_FOUND) = (TokenDocs(ledger, t) = {})
        /\ TokenDocs(ledger, t) # {} => out.r.resp.status = OK
        /\ LogoutIn(out.S, t).status = NOT_FOUND

\* a held token is past its expiry claim and still in the ledger, and its
\* revoke succeeds; a token with a bad signature has no record
C16_Witness ==
    /\ \E t \in held :
        /\ PastExpiryClaim(t) /\ TokenDocs(ledger, t) # {}
        /\ Run(Store, LogoutRequest(t)).r.resp.status = OK
    /\ \E t \in TokenInputs :
        ~SignatureVerifies(t) /\ Run(Store, LogoutRequest(t)).r.resp.status = NOT_FOUND

\* C17: the token pair issued by a successful refresh carries the role of the
\* presented refresh token's claims, not the role stored on the account.
C17_RefreshKeepsTokenRole ==
    \A t \in TokenInputs :
        LET out == RefreshOf(t) IN
        out.r.resp.status = OK =>
            /\ out.r.resp.accessToken.role = t.role
            /\ \A d \in out.S.ledger \ ledger : d.token.role = t.role

\* a held token that can be refreshed carries a role other than the one now
\* stored on its account, and the refresh records a new token
C17_Witness ==
    \E t \in held :
        /\ RefreshOf(t).r.resp.status = OK
        /\ users[t.userId].role # t.role
        /\ RefreshOf(t).S.ledger \ ledger # {}

\* C18: after an account's stored role has changed, the access token minted by
\* the next successful refresh of its session carries the stored role.
C18_RefreshPicksUpNewRole ==
    \A t \in TokenInputs :
        LET out == RefreshOf(t) IN
        out.r.resp.status = OK =>
            out.r.resp.accessToken.role = users[t.userId].role

\* C19: on every protected route, a request without an Authorization header,
\* with a malformed token, with an expired access token or with a token whose
\* payload lacks userId, email or role is answered 401, and neither the
\* authorization predicates of the route nor its handler run: the request
\* ends in the authenticator and the store is as it was.
Unauthenticated(h) ==
    \/ h = NoToken
    \/ h.secret # accessSecret
    \/ clock >= h.exp
    \/ h.userId = NoUserId \/ h.email = << >> \/ h.role = ""

C19_UnauthenticatedIs401 ==
    \A op \in Routes, h \in AccessHeaders, id \in UserIds :
        \A b \in ProtectedBodies(op) :
            Unauthenticated(h) =>
                LET out == Step(Store, ProtectedRequest(op, h, id, b)) IN
                /\ out.r.pc = "done"
                /\ out.r.resp.status = UNAUTHORIZED
                /\ out.r.path = "unauthenticated"
                /\ out.S = Store

\* an account's own expired access token and an unexpired token under the
\* access secret without a role claim are both turned away from DELETE
\* /users/:id of that account
C19_Witness ==
    \E id \in DOMAIN users, h1 \in IssuedAccess, h2 \in AccessHeaders :
        /\ h1.userId = id /\ clock >= h1.exp
        /\ h2.userId = id /\ h2.secret = accessSecret /\ clock < h2.exp /\ h2.role = ""
        /\ \A h \in { h1, h2 } :
            LET out == Step(Store, ProtectedRequest("deleteUser", h, id, NoBody)) IN
            out.r.path = "unauthenticated" /\ out.r.resp.status = UNAUTHORIZED

\* C20: with an identity attached, requireRole passes iff the attached role
\* is the required role, requireAllPermissions passes iff every listed
\* permission is in the attached permission set, requireAnyPermission passes
\* iff at least one listed permission is in it (requirePermission: iff the
\* permission is in it), and every rejection is an ApiError 403, never 401.
\* The identities are those the authenticator attaches now: for the access
\* tokens of the issued sessions and for a token of each role name.
Forbidden(err) == err.kind = "ApiError" /\ err.statusCode = FORBIDDEN
Decides(err, pass) == IF pass THEN err = NoError ELSE Forbidden(err)

C20_PredicatesDecideAsReference ==
    LET RoleNames == { "admin", "user", "therapist", "ghost" }
        Permissions == { "manageUsers", "getUsers", "getProfile", "updateOwnProfile" }
        Lists == { << >> } \cup [ 1 .. 1 -> Permissions ] \cup [ 1 .. 2 -> Permissions ]
        Presented == AccessHeaders \cup
            { generateAccessToken(1, << "b", "@", "x" >>, ro) : ro \in RoleNames }
        Attached == { authenticate(h).user : h \in Presented } \ { NoIdentity }
    IN
    \A u \in Attached :
        LET Has == { u.permissions[k] : k \in DOMAIN u.permissions } IN
        /\ \A ro \in RoleNames : Decides(requireRole(ro, u), u.role = ro)
        /\ \A p \in Permissions : Decides(requirePermission(p, u), p \in Has)
        /\ \A ps \in Lists :
            LET Listed == { ps[k] : k \in DOMAIN ps } IN
            /\ Decides(requireAllPermissions(ps, u), Listed \subseteq Has)
            /\ Decides(requireAnyPermission(ps, u), Listed \cap Has # {})

\* the identity attached for an issued access token of role user is refused
\* by requireRole(admin) and by requireAllPermissions([getProfile,
\* manageUsers]) with 403 and let through by requireAnyPermission of the same
\* list, while a DELETE /users/:id that passed its gate is under way
C20_Witness ==
    /\ req[1].op = "deleteUser" /\ req[1].pc = "deleteTokens"
    /\ \E h \in IssuedAccess :
        LET a == authenticate(h) IN
        /\ a.err = NoError /\ a.user.role = "user"
        /\ Forbidden(requireRole("admin", a.user))
        /\ Forbidden(requireAllPermissions(<< "getProfile", "manageUsers" >>, a.user))
        /\ requireAnyPermission(<< "getProfile", "manageUsers" >>, a.user) = NoError

\* C21: on GET, PUT and DELETE /users/:id, an authenticated request whose
\* identity id differs from the path id and whose permissions lack the
\* override (getUsers for GET, manageUsers for PUT and DELETE) is answered
\* 403 and the user handler does not run (the store is as it was); when the
\* ids are equal or the override is held the request passes the gate and the
\* handler decides the answer.
C21_OwnershipGate ==
    \A op \in { "getUserById", "updateUser", "deleteUser" }, h \in AccessHeaders,
       id \in UserIds :
        \A b \in ProtectedBodies(op) :
            LET a == authenticate(h)
                override == IF op = "getUserById" THEN "getUsers" ELSE "manageUsers"
                out == Step(Store, ProtectedRequest(op, h, id, b))
            IN
            a.err = NoError =>
                IF a.user.id # id
                   /\ override \notin { a.user.permissions[k] : k \in DOMAIN a.user.permissions }
                THEN /\ out.r.pc = "done"
                     /\ out.r.path = "forbidden"
                     /\ out.r.resp.status = FORBIDDEN
                     /\ out.S = Store
                ELSE out.r.path \notin { "forbidden", "unauthenticated" }

\* with two accounts, the unexpired access token of one of role user is
\* refused on DELETE of the other account and let through on its own, and
\* the unexpired access token of an admin is let through on both
C21_Witness ==
    \E h1 \in IssuedAccess, h2 \in IssuedAccess :
        /\ DOMAIN users = { h1.userId, h2.userId } /\ h1.userId # h2.userId
        /\ h1.role = "user" /\ h2.role = "admin"
        /\ authenticate(h1).err = NoError /\ authenticate(h2).err = NoError
        /\ Step(Store, ProtectedRequest("deleteUser", h1, h2.userId, NoBody)).r.path = "forbidden"
        /\ Step(Store, ProtectedRequest("deleteUser", h1, h1.userId, NoBody)).r.pc = "deleteTokens"
        /\ Step(Store, ProtectedRequest("deleteUser", h2, h1.userId, NoBody)).r.pc = "deleteTokens"

\* C22: an error that is no ApiError and no duplicate-key error (here: the
\* Error the web Google callback raises for an unverified email) is answered
\* 500 with the generic message "Internal server error"; the message of the
\* internal error is not in the response.
C22_InternalMessageHidden ==
    \A g \in GoogleInputs :
        (g.via = "web" /\ ~EmailVerified(g)) =>
            LET out == Run(Store, GoogleRequest(g)) IN
            /\ out.r.resp.status = INTERNAL_SERVER_ERROR
            /\ out.r.resp.message = "Internal server error"

\* C23: every failed request (status 400 or above) is answered by the
\* top-level error handler with the envelope {error: {statusCode, message}};
\* here for the Google sign-in endpoints, web callback and mobile.
C23_FailuresUseEnvelope ==
    \A g \in GoogleInputs :
        LET out == Run(Store, GoogleRequest(g)) IN
        out.r.resp.status >= 400 => out.r.resp.shape = "error"

\* C24: getPermissionsForRole returns the fixed permission set of each of the
\* roles admin, user and therapist, and the empty set for every other role
\* value; the identity the authenticator attaches carries exactly that set.
C24_PermissionsFixedUnknownEmpty ==
    LET Table == [ admin |-> { "manageUsers", "getUsers", "getProfile", "updateOwnProfile" },
                   user |-> { "getProfile", "updateOwnProfile" },
                   therapist |-> { "getProfile", "updateOwnProfile" } ]
        RoleValues == DOMAIN Table \cup { "", "ghost", "Admin", "constructor" }
        Set(array) == { array[k] : k \in DOMAIN array }
    IN
    /\ \A role \in RoleValues :
        Set(getPermissionsForRole(role)) = IF role \in DOMAIN Table THEN Table[role] ELSE {}
    /\ \A h \in AccessHeaders :
        LET a == authenticate(h) IN
        a.err = NoError => a.user.permissions = getPermissionsForRole(h.role)

\* C25: a token signed with the right key and verified at or after its exp
\* claim fails verifyAccessToken / verifyRefreshToken with the expired
\* variant ("Access token expired" / "Refresh token expired"), never with the
\* invalid variant; a token that is not signed with that key fails with the
\* invalid variant. The tokens are those handed out, their access
\* counterparts, and both re-signed with a foreign key.
C25_ExpiredVariant ==
    \A t \in TokenInputs \cup IssuedAccess \cup { Forged(a) : a \in IssuedAccess } :
        /\ verifyRefreshToken(t) =
            IF t.secret # refreshSecret THEN ApiError(UNAUTHORIZED, "Invalid refresh token")
            ELSE IF clock >= t.exp THEN ApiError(UNAUTHORIZED, "Refresh token expired")
            ELSE NoError
        /\ verifyAccessToken(t) =
            IF t.secret # accessSecret THEN ApiError(UNAUTHORIZED, "Invalid access token")
            ELSE IF clock >= t.exp THEN ApiError(UNAUTHORIZED, "Access token expired")
            ELSE NoError

\* a refresh token handed out earlier is past its exp claim: refresh answers
\* "Refresh token expired", its re-signed copy "Invalid refresh token", and
\* the access token of the same session has expired as well
C25_Witness ==
    \E t \in held :
        /\ clock >= t.exp
        /\ RefreshOf(t).r.resp.message = "Refresh token expired"
        /\ RefreshOf(Forged(t)).r.resp.message = "Invalid refresh token"
        /\ \E a \in IssuedAccess :
            a.iat = t.iat /\ verifyAccessToken(a).message = "Access token expired"

\* C26: key separation. An access token (one signed now for an account of
\* the store, or the access token of a session handed out earlier) is never
\* accepted by verifyRefreshToken, so POST /refresh with it is answered 401
\* and changes nothing; a refresh token (signed now, or handed out earlier)
\* is never accepted by the request authenticator.
C26_KeySeparation ==
    LET Now == { generateTokenPair(id, users[id].email, users[id].role) : id \in DOMAIN users }
        Access == IssuedAccess \cup { p.accessToken : p \in Now }
        Refreshes == held \cup { p.refreshToken : p \in Now }
    IN
    /\ \A a \in Access :
        /\ verifyRefreshToken(a) # NoError
        /\ RefreshOf(a).r.resp.status = UNAUTHORIZED
        /\ RefreshOf(a).S = Store
    /\ \A t \in Refreshes :
        /\ authenticate(t).err # NoError
        /\ authenticate(t).user = NoIdentity

\* an unexpired access token is accepted by the authenticator and refused by
\* refresh, and the refresh token of the same session is accepted by refresh
\* and refused by the authenticator
C26_Witness ==
    \E t \in held, a \in IssuedAccess :
        /\ a.iat = t.iat /\ a.userId = t.userId
        /\ authenticate(a).err = NoError
        /\ RefreshOf(a).r.path = "badToken"
        /\ RefreshOf(t).r.resp.status = OK
        /\ authenticate(t).err.statusCode = UNAUTHORIZED

\* C27: whenever register, login, the Google web callback or the Google
\* mobile sign-in sends a response that carries a refresh token, the ledger
\* holds at that moment a record with exactly that token, owned by the
\* account the handler authenticated, which is the account the token names.
C27_ReturnedTokenHasRecord ==
    \A i \in Slots :
        req[i].op \in { "register", "login", "google" } =>
            LET out == Step(Store, req[i]) IN
            (out.r.pc = "done" /\ out.r.resp.refreshToken # NoToken) =>
                /\ out.r.resp.refreshToken.userId = out.r.uid
                /\ \E d \in out.S.ledger :
                    d.token = out.r.resp.refreshToken /\ d.userId = out.r.uid

\* a Google mobile sign-in is about to send its token pair: the response
\* carries a refresh token and the ledger then holds its record
C27_Witness ==
    /\ req[1].op = "google" /\ req[1].g.via = "mobile"
    /\ LET out == Step(Store, req[1]) IN
       /\ out.r.pc = "done" /\ out.r.resp.status = OK
       /\ out.r.resp.refreshToken # NoToken
       /\ \E d \in out.S.ledger : d.token = out.r.resp.refreshToken
       /\ out.S.ledger # ledger

\* C28: email handling is case-insensitive. For every account and every
\* spelling of its email that differs only in case: login with the account's
\* password passes authentication and resolves to that account,
\* reconciliation by email finds that account, and registering with that
\* spelling, or updating another account to it, is answered 409 and changes
\* nothing.
C28_EmailCaseInsensitive ==
    LET Spellings == { << c, "@", "x" >> : c \in { "a", "A", "b", "B" } }
        Small == [ a |-> "a", A |-> "a", b |-> "b", B |-> "b" ]
        SameButCase(e, f) == Small[e[1]] = Small[f[1]]
    IN
    \A id \in DOMAIN users, e \in Spellings :
        SameButCase(e, users[id].email) =>
            /\ \A p \in PasswordInputs :
                comparePassword(users[id], p) =>
                    LET out == RunTo(Store, LoginRequest(e, p), { "createToken", "done" }) IN
                    /\ out.r.pc = "createToken"
                    /\ out.r.uid = id
                    /\ out.r.pair.refreshToken.userId = id
            /\ getUserByEmailInternal(users, e) = id
            /\ \A n \in RegisterNames, p \in RegisterPasswords :
                LET out == Run(Store, RegisterRequest(e, n, p, "unset")) IN
                out.r.resp.status = CONFLICT /\ out.S = Store
            /\ \A other \in DOMAIN users \ { id } :
                LET out == Run(Store, UpdateUserRequest(other, [ NoBody EXCEPT !.email = e ])) IN
                out.r.resp.status = CONFLICT /\ out.S = Store

\* two accounts, one registered as "A@x" with a password: login spelled
\* "a@x" and "A@x" both resolve to it and the other account cannot take "A@x"
C28_Witness ==
    \E id \in DOMAIN users, other \in DOMAIN users :
        /\ other # id
        /\ users[id].email = << "a", "@", "x" >>
        /\ comparePassword(users[id], "pw1")
        /\ \A e \in { << "a", "@", "x" >>, << "A", "@", "x" >> } :
            /\ RunTo(Store, LoginRequest(e, "pw1"), { "createToken", "done" }).r.uid = id
            /\ Run(Store, UpdateUserRequest(other, [ NoBody EXCEPT !.email = e ])).r.path
                    = "emailTaken"

\* C29: POST /register with an email that already belongs to an account,
\* whether that account was registered locally or created by Google sign-in,
\* is answered 409 and changes nothing: no account is created or modified
\* and no ledger record is created.
C29_DuplicateRegisterChangesNothing ==
    \A id \in DOMAIN users, e \in EmailInputs, n \in RegisterNames,
       p \in PasswordInputs, ro \in RoleInputs :
        users[id].email = toLowerCase(e) =>
            LET out == Run(Store, RegisterRequest(e, n, p, ro)) IN
            /\ out.r.resp.status = CONFLICT
            /\ out.r.resp.refreshToken = NoToken
            /\ out.S.users = users
            /\ out.S.ledger = ledger
            /\ out.S.nextId = nextId

\* a local account and an account created by Google sign-in exist, and a
\* registration with the email of either is turned away with 409
C29_Witness ==
    \E a \in DOMAIN users, b \in DOMAIN users :
        /\ users[a].authProvider = "local" /\ users[b].authProvider = "google"
        /\ \A id \in { a, b } : \E e \in EmailInputs :
            /\ users[id].email = toLowerCase(e)
            /\ Run(Store, RegisterRequest(e, << "B", "o" >>, "pw1", "unset")).r.path = "duplicate"

\* C30: every ledger record is eventually deleted (by logout, by rotation, by
\* account deletion, by the lazy delete of a failed refresh, or by the TTL
\* monitor once its expiresAt has passed), given that time advances and the
\* monitor keeps running. The clock of the model stops at MaxTime, so the
\* records followed are those whose expiresAt lies before MaxTime.
LedgerRecords ==
    { [ token |-> [ secret |-> refreshSecret, userId |-> id, email |-> toLowerCase(e),
                    role |-> ro, iat |-> t, exp |-> t + x ],
        userId |-> id, expiresAt |-> at ] :
        id \in UserIds, e \in EmailInputs, ro \in { "user", "admin" },
        t \in 0 .. MaxTime, x \in RefreshExpirations, at \in 1 .. MaxTime - 1 }

C30_RecordsEventuallyDeleted ==
    \A d \in LedgerRecords : (d \in ledger) ~> (d \notin ledger)

\* a record that nobody revoked or rotated is past its expiresAt and still in
\* the ledger: only the TTL monitor or a failed refresh will remove it
C30_Witness ==
    \E d \in ledger :
        /\ d \in LedgerRecords
        /\ d.expiresAt < clock
        /\ d.token \notin revoked
        /\ d.userId \in DOMAIN users

\* C31: the failure paths of refreshAccessToken(T). A token that fails the
\* signature or expiry-claim check is answered 401 and leaves ledger and
\* accounts as they were; a ledger record of T whose stored expiry has passed
\* is deleted and the answer is 401; when the record is live and the account
\* named in the claims is gone, T's record is deleted and the answer is 401.
\* No failed refresh, started now or already under way, creates a ledger
\* record or changes an account.
C31_RefreshFailureEffects ==
    /\ \A t \in TokenInputs :
        LET out == RefreshOf(t)
            docs == TokenDocs(ledger, t)
            deleted == out.S.ledger = ledger \ docs /\ out.S.users = users
        IN
        IF t.secret # refreshSecret \/ clock >= t.exp
        THEN out.r.resp.status = UNAUTHORIZED /\ out.S = Store
        ELSE IF docs # {} /\ \E d \in docs : d.expiresAt < clock
        THEN out.r.resp.status = UNAUTHORIZED /\ docs # {} /\ deleted
        ELSE IF docs # {} /\ t.userId \notin DOMAIN users
        THEN out.r.resp.status = UNAUTHORIZED /\ deleted
        ELSE TRUE
    /\ \A i \in Slots :
        req[i].op = "refresh" =>
            LET out == Run(Store, req[i]) IN
            /\ out.r.resp.status # OK =>
                out.S.ledger \subseteq ledger /\ out.S.users = users
            /\ out.r.path \in { "ledgerExpired", "noUser" } =>
                /\ out.r.resp.status = UNAUTHORIZED
                /\ out.S.ledger = ledger \ TokenDocs(ledger, req[i].tok)

\* one token handed out has a ledger record past its stored expiry while its
\* expiry claim has not passed, another has a live record while its account
\* is gone: a refresh of either fails and removes the record
C31_Witness ==
    \E t1 \in held, t2 \in held :
        /\ RefreshOf(t1).r.path = "ledgerExpired"
        /\ RefreshOf(t2).r.path = "noUser"
        /\ TokenDocs(ledger, t1) # {} /\ TokenDocs(RefreshOf(t1).S.ledger, t1) = {}
        /\ TokenDocs(ledger, t2) # {} /\ TokenDocs(RefreshOf(t2).S.ledger, t2) = {}

\* C32: on every issuance path the ledger record's expiresAt equals the
\* expiry claim of the refresh token it records (issue time plus the
\* configured refresh TTL), for every configured value of the refresh TTL.
C32_ExpiresAtIsExpiryClaim ==
    \A d \in ledger : d.expiresAt = d.token.exp

\* C33: a Google mobile sign-in whose identity verification fails or times
\* out is answered 401 at once: no account is looked up, created or linked,
\* no ledger record is created and no token pair is returned.
C33_FailedVerificationIs401 ==
    \A g \in FailedVerifications :
        LET out == Step(Store, GoogleRequest(g)) IN
        /\ out.r.pc = "done"
        /\ out.r.resp.status = UNAUTHORIZED
        /\ out.r.resp.accessToken = NoToken /\ out.r.resp.refreshToken = NoToken
        /\ out.S = Store

\* an account is linked to a googleId, and a mobile sign-in for that very
\* googleId whose verification timed out is turned away
C33_Witness ==
    \E g \in FailedVerifications :
        /\ g.ticket = "timeout"
        /\ getUserByGoogleId(users, g.googleId) # NoUserId
        /\ Step(Store, GoogleRequest(g)).r.path = "verifyFailed"

\* C34: a refresh token is exchanged at most once: of two refresh requests
\* under way that present the same token T and have both found T's ledger
\* record, at most one completes successfully, whichever of them is served
\* first, so that T's record has at most one successor.
C34_ExchangedAtMostOnce ==
    \A i \in Slots, j \in Slots :
        (i # j /\ req[i].op = "refresh" /\ req[j].op = "refresh"
         /\ req[i].tok = req[j].tok
         /\ { req[i].pc, req[j].pc } \subseteq { "findUser", "deleteOld", "createNew" }) =>
            LET first == Run(Store, req[i])
                second == Run(first.S, req[j])
            IN
            ~(first.r.resp.status = OK /\ second.r.resp.status = OK)

\* C35: logout ends the session also against a refresh under way: once
\* revokeRefreshToken(T) has answered success, a refresh request presenting
\* T does not complete successfully and creates no ledger record.
C35_LogoutBeatsRefresh ==
    \A i \in Slots :
        (req[i].op = "refresh" /\ req[i].tok \in revoked) =>
            LET out == Run(Store, req[i]) IN
            /\ out.r.resp.status # OK
            /\ out.S.ledger \subseteq ledger

\* C36: reconciliation never replaces an existing link: an account's googleId,
\* once set, is the same in every later state in which the account exists;
\* no Google sign-in with another googleId that matches the account by email
\* changes it.
C36_GoogleIdNeverReplaced ==
    [][ \A id \in DOMAIN users :
            (users[id].googleId # NoGoogleId /\ id \in DOMAIN users') =>
                users'[id].googleId = users[id].googleId ]_vars

\* C37: a profile update (PUT /users/{id}) changes only the account's name
\* and email: for every body that passes validation, the account's role,
\* password digest, googleId and authProvider are after the update what they
\* were before it, and no other account changes.
C37_UpdateChangesNameAndEmailOnly ==
    \A id \in DOMAIN users, b \in UpdateBodies :
        LET after == Run(Store, UpdateUserRequest(id, b)).S.users IN
        /\ DOMAIN after = DOMAIN users
        /\ \A j \in DOMAIN users \ { id } : after[j] = users[j]
        /\ after[id].role = users[id].role
        /\ after[id].password = users[id].password
        /\ after[id].googleId = users[id].googleId
        /\ after[id].authProvider = users[id].authProvider

\* C38: every account created through POST /register has role user and
\* authProvider local, whatever else the body contains: with registration the
\* only source of accounts and no admin to begin with, no state has an
\* account whose role is admin.
C38_RegisteredAccountsAreUsers ==
    \A id \in DOMAIN users :
        /\ users[id].role = "user"
        /\ users[id].authProvider = "local"

\* C39: changePassword(userId, old, new) with a wrong old password, or on an
\* account without a password digest, fails with 401 and changes nothing; on
\* success it changes only that account's password digest: the ledger is as
\* it was, and every refresh token that could be exchanged before the change
\* can be exchanged after it.
ChangePasswordOf(id, old, new) ==
    Run(Store, [ NewRequest("changePassword") EXCEPT
                    !.uid = id, !.password = old, !.newPassword = new ])

C39_ChangePasswordEffects ==
    \A id \in DOMAIN users, old \in PasswordInputs, new \in PasswordInputs :
        LET out == ChangePasswordOf(id, old, new) IN
        IF users[id].password # bcryptHash(old)
        THEN /\ out.r.resp.status = UNAUTHORIZED
             /\ out.S = Store
        ELSE /\ out.r.resp.status = OK
             /\ out.S.users = [ users EXCEPT ![id].password = bcryptHash(new) ]
             /\ out.S.ledger = ledger
             /\ \A t \in held :
                    RefreshOf(t).r.resp.status = OK =>
                        Run(out.S, RefreshRequest(t)).r.resp.status = OK

\* an account without a digest exists beside an account whose password can be
\* changed while a refresh token of its session is still exchangeable
C39_Witness ==
    /\ \E id \in DOMAIN users : users[id].password = NoPassword
    /\ \E t \in held :
        /\ t.userId \in DOMAIN users
        /\ RefreshOf(t).r.resp.status = OK
        /\ ChangePasswordOf(t.userId, "pw1", "pw2").r.path = "ok"
        /\ ChangePasswordOf(t.userId, "pw2", "pw1").r.path = "wrongPassword"

\* C40: the authenticator's decision and the identity it attaches depend only
\* on the presented access token and the clock, not on the store: across
\* every step that leaves the clock alone, whatever it does to the ledger and
\* to the accounts (a logout, an account deletion, a registration), every
\* Authorization header is accepted or rejected as before, with the same
\* error or the same {id, email, role, permissions} attached, and what is
\* attached is read from the token's own claims.
C40_AuthenticatorIgnoresStore ==
    [][ \A h \in AccessHeaders :
            /\ clock' = clock => authenticate(h)' = authenticate(h)
            /\ authenticate(h).err = NoError =>
                /\ authenticate(h).user.id = h.userId
                /\ authenticate(h).user.email = h.email
                /\ authenticate(h).user.role = h.role ]_vars

\* an access token is accepted after the logout of its session and after its
\* account was deleted
C40_Witness ==
    \E h \in IssuedAccess :
        /\ authenticate(h).err = NoError
        /\ [ h EXCEPT !.secret = refreshSecret, !.iat = 0, !.exp = 0 ]
            \in { [ t EXCEPT !.iat = 0, !.exp = 0 ] : t \in revoked }
        /\ h.userId \notin DOMAIN users
        /\ h.userId < nextId

====
